---- MODULE Spec2Model ----
(***************************************************************************)
(* Model of the incremental symbol cache of VolumeDeliveryData:            *)
(*   fetch_vol_delivery_data.py  NSEDataDownloader (per-symbol CSV cache)  *)
(*   bulk_downloader.py          BulkNSEDownloader (thread-pool batches)   *)
(*   utils.py                    the chunked fetch from the remote source  *)
(*                                                                         *)
(* Dates are day numbers: day 0 is 2000-01-01.  Every year of the model    *)
(* has DaysPerYear days (leap days are left out), so Jan 1 of year y is    *)
(* day (y - BaseYear) * DaysPerYear.  A record of a table is               *)
(* [Date, Val]: Val stands for all the other columns of the row.           *)
(***************************************************************************)
EXTENDS Integers, Sequences, FiniteSets, TLC

VARIABLES
    today,      \* the current date, datetime.now().date()
    market,     \* market[s]: the records the remote source holds for symbol s
    csv,        \* csv[s]: the rows of <base_dir>/<s>.csv; <<>> when there is no file
    corrupt,    \* the symbols whose <s>.csv exists and cannot be parsed
    lastOp,     \* the last call on the downloader: [op, sym, raised]
    requested,  \* the sub-ranges that call sent to the remote source
    fetched,    \* the records that call got from get_volume_deliverable_data
    \* ---- one batch of BulkNSEDownloader
    phase,      \* "idle", "running", "returned", or "aborted" (an exception left the batch)
    kind,       \* "update" (update_all_symbols) or "download" (parallel_download)
    symbols,    \* the input list of symbols; task i is the future of symbols[i]
    max_workers,
    raises,     \* the symbols whose requests to the remote source raise
    task,       \* task[i]: [pc, chunks, df, data, result, worker, slept, wrote] of future i
    tmp,        \* tmp[s]: the file <s>_temp.csv, [exists, rows]
    reqlog,     \* reqlog[i]: the sub-ranges task i requested from the remote source
    mainpc,     \* the as_completed loop: "wait" for a future, or "sleep" (time.sleep)
    collected,  \* the futures as_completed has yielded
    entry,      \* entry[i]: the report list future i was appended to
    updated_symbols, failed_symbols, no_update_needed,   \* update_all_symbols
    successful, failed,                                  \* parallel_download
    csv0        \* the tables when the batch started

cacheVars == <<lastOp, requested, fetched>>
batchVars == <<phase, kind, symbols, max_workers, raises, task, tmp, reqlog, mainpc,
               collected, entry, updated_symbols, failed_symbols, no_update_needed,
               successful, failed, csv0>>
vars == <<today, market, csv, corrupt, cacheVars, batchVars>>

\* ------------------------------------------------------------- bounds
MaxTicks == 3
NumTradeDays == 3
MaxRows == 2

\* ---------------------------------------------------- program constants
BaseYear == 2000
DaysPerYear == 365
default_start_year == 2000
ChunkLimit == 365
ChunkSpan == 364
ChunkStep == 365
CompleteWindow == 2

Symbols == {"A", "B"}

\* Python's None, for an optional year or date and for "no exception".
None == 0 - 1
NoError == "None"

\* The first value of the clock: 31 Dec of BaseYear, so that the runs of the
\* model cross a year boundary.
StartDay == DaysPerYear - 1
LastDay == StartDay + MaxTicks
\* The dates for which the remote source may hold records.
TradeDays == (StartDay - 1)..(StartDay + NumTradeDays - 2)
Rows == [Date : TradeDays, Val : 1..MaxRows]

SeqsUpTo(S, n) == UNION {[1..k -> S] : k \in 0..n}

\* ------------------------------------------------------ calendar
YearOf(d) == BaseYear + (d \div DaysPerYear)
Jan1(y) == (y - BaseYear) * DaysPerYear
Dec31(y) == Jan1(y) + (DaysPerYear - 1)

\* ------------------------------------------------------ tables
Dates(t) == {t[i].Date : i \in DOMAIN t}

\* df["Date"].max()
MaxDate(t) == CHOOSE d \in Dates(t) : \A e \in Dates(t) : e <= d

\* DataFrame.drop_duplicates(subset=["Date"]): keep defaults to "first".
RECURSIVE drop_duplicates(_)
drop_duplicates(t) ==
    IF t = <<>> THEN <<>>
    ELSE LET n == Len(t)
             front == drop_duplicates(SubSeq(t, 1, n - 1))
         IN IF t[n].Date \in Dates(front) THEN front ELSE Append(front, t[n])

\* Insert row r into the date-sorted sequence t, after the rows of its date.
RECURSIVE InsertByDate(_, _)
InsertByDate(t, r) ==
    IF t = <<>> THEN <<r>>
    ELSE IF t[Len(t)].Date <= r.Date THEN Append(t, r)
    ELSE Append(InsertByDate(SubSeq(t, 1, Len(t) - 1), r), t[Len(t)])

\* DataFrame.sort_values(by="Date")
RECURSIVE sort_values(_)
sort_values(t) ==
    IF t = <<>> THEN <<>>
    ELSE InsertByDate(sort_values(SubSeq(t, 1, Len(t) - 1)), t[Len(t)])

\* A merge that drops no duplicate.
merge_tables_keep_all(existing_data, new_data) ==
    sort_values(existing_data \o new_data)

\* The merge without the cached rows.
merge_tables_only_new(existing_data, new_data) ==
    sort_values(drop_duplicates(new_data))

\* update_symbol_data, lines 199-203:
\*   pd.concat([existing_data, new_data]).drop_duplicates(subset=["Date"])
\*     .sort_values(by="Date")
merge_tables(existing_data, new_data) ==
    sort_values(drop_duplicates(existing_data \o new_data))

IsSorted(t) == \A i, j \in DOMAIN t : i < j => t[i].Date <= t[j].Date
NoDuplicateDates(t) == \A i, j \in DOMAIN t : i # j => t[i].Date # t[j].Date

\* ------------------------------------------------------ chunked fetch
\* price_volume_and_deliverable_position_data, lines 144-156: the sub-ranges
\* requested from the remote source for [from_date, to_date].
RECURSIVE Chunks(_, _)
Chunks(from_date, to_date) ==
    LET load_days == to_date - from_date
    IN IF load_days > 0
       THEN LET end_date == IF load_days > ChunkLimit
                            THEN from_date + ChunkSpan
                            ELSE to_date
            IN <<<<from_date, end_date>>>> \o Chunks(from_date + ChunkStep, to_date)
       ELSE <<>>

RequestedDates(chunks) == UNION {chunks[i][1]..chunks[i][2] : i \in DOMAIN chunks}

\* The records the remote source returns for one request [a, b] of symbol s:
\* those it holds in the range (it holds none for a date after today).
RemoteRows(s, a, b) ==
    SelectSeq(market[s], LAMBDA r : r.Date \in a..b /\ r.Date <= today)

RECURSIVE ConcatChunks(_, _)
ConcatChunks(s, chunks) ==
    IF chunks = <<>> THEN <<>>
    ELSE RemoteRows(s, Head(chunks)[1], Head(chunks)[2])
         \o ConcatChunks(s, Tail(chunks))

\* get_volume_deliverable_data(symbol, start_date_str, end_date_str) as one
\* call.  failAt = k > 0: the k-th request raises RuntimeError (utils.py:112);
\* failAt = 0: no request raises.  With no request to make (from >= to) the
\* result is empty, or nselib's validate_date_param rejects the range (strict).
get_volume_deliverable_data(s, from_date, to_date, failAt, strict) ==
    LET chunks == Chunks(from_date, to_date)
    IN IF chunks = <<>>
       THEN [raised |-> IF strict THEN "ValueError" ELSE NoError,
             rows |-> <<>>, requested |-> <<>>]
       ELSE IF failAt \in 1..Len(chunks)
       THEN [raised |-> "RuntimeError", rows |-> <<>>,
             requested |-> SubSeq(chunks, 1, failAt)]
       ELSE [raised |-> NoError, rows |-> ConcatChunks(s, chunks),
             requested |-> chunks]

\* ------------------------------------------------------ NSEDataDownloader
\* is_data_complete(symbol)
is_data_complete(s) ==
    IF s \in corrupt THEN FALSE
    ELSE IF csv[s] = <<>> THEN FALSE
    ELSE MaxDate(csv[s]) >= today - CompleteWindow

\* load_from_csv(symbol)
load_from_csv(s) == IF s \in corrupt THEN <<>> ELSE csv[s]

\* save_to_csv(symbol, data): the table the file holds afterwards.
save_to_csv(s, data) == IF data = <<>> THEN csv[s] ELSE data

\* The unparseable files after save_to_csv(s, data): a write replaces the file.
Rewritten(s, data) == IF data = <<>> THEN corrupt ELSE corrupt \ {s}

\* download_symbol_data, lines 59-78: the range to download.
DownloadStart(start_year, listing_date) ==
    IF start_year = None
    THEN IF listing_date # None THEN listing_date ELSE Jan1(BaseYear)
    ELSE Jan1(start_year)

DownloadEnd(end_year) == IF end_year = None THEN today ELSE Dec31(end_year)

\* update_symbol_data, lines 172-188: the range to update.
UpdateStart(s) ==
    LET current_year == YearOf(today)
    IN IF csv[s] = <<>> \/ YearOf(MaxDate(csv[s])) < current_year
       THEN Jan1(current_year)
       ELSE MaxDate(csv[s]) + 1

UpdateEnd == today - 1

Years == YearOf(StartDay)..YearOf(LastDay)

\* download_symbol_data(symbol, start_year, end_year)
DownloadSymbolData(s, start_year, end_year, listing_date, failAt, strict) ==
    /\ IF is_data_complete(s)
       THEN /\ lastOp' = [op |-> "download", sym |-> s, raised |-> NoError]
            /\ requested' = <<>>
            /\ fetched' = <<>>
            /\ csv' = csv
            /\ corrupt' = corrupt
       ELSE LET f == get_volume_deliverable_data(
                         s, DownloadStart(start_year, listing_date),
                         DownloadEnd(end_year), failAt, strict)
            IN /\ lastOp' = [op |-> "download", sym |-> s, raised |-> f.raised]
               /\ requested' = f.requested
               /\ fetched' = f.rows
               /\ csv' = IF f.raised # NoError THEN csv
                         ELSE [csv EXCEPT ![s] = save_to_csv(s, f.rows)]
               /\ corrupt' = IF f.raised # NoError THEN corrupt
                             ELSE Rewritten(s, f.rows)
    /\ UNCHANGED <<today, market, batchVars>>

\* update_symbol_data(symbol).  read_csv of line 179 is in no try block: an
\* unparseable file ends the call with pandas' exception.
UpdateSymbolData(s, failAt, strict) ==
    LET start_date == UpdateStart(s)
        end_date == UpdateEnd
    IN /\ IF s \in corrupt
          THEN /\ lastOp' = [op |-> "update", sym |-> s, raised |-> "ParserError"]
               /\ requested' = <<>>
               /\ fetched' = <<>>
               /\ csv' = csv
               /\ corrupt' = corrupt
          ELSE IF start_date <= end_date
          THEN LET f == get_volume_deliverable_data(s, start_date, end_date,
                                                    failAt, strict)
                   merged == f.raised = NoError /\ f.rows # <<>>
               IN /\ lastOp' = [op |-> "update", sym |-> s, raised |-> f.raised]
                  /\ requested' = f.requested
                  /\ fetched' = f.rows
                  /\ csv' = IF merged
                            THEN [csv EXCEPT ![s] = save_to_csv(
                                      s, merge_tables(load_from_csv(s), f.rows))]
                            ELSE csv
                  /\ corrupt' = IF merged THEN Rewritten(s, f.rows) ELSE corrupt
          ELSE /\ lastOp' = [op |-> "update", sym |-> s, raised |-> NoError]
               /\ requested' = <<>>
               /\ fetched' = <<>>
               /\ csv' = csv
               /\ corrupt' = corrupt
       /\ UNCHANGED <<today, market, batchVars>>

\* A day passes.
Tick ==
    /\ today < LastDay
    /\ today' = today + 1
    /\ UNCHANGED <<market, csv, corrupt, cacheVars, batchVars>>

\* The k-th record of a date carries Val = k: Val only tells the records of
\* one date apart.
Canon(ds) ==
    [i \in DOMAIN ds |->
        [Date |-> ds[i], Val |-> Cardinality({j \in 1..i : ds[j] = ds[i]})]]

\* The remote source answers in date order and may hold several records of
\* one date (the request asks for series=ALL, utils.py:104).
MarketData ==
    {Canon(ds) : ds \in {d \in SeqsUpTo(TradeDays, MaxRows) :
                            \A i, j \in DOMAIN d : i < j => d[i] <= d[j]}}

NoOp == [op |-> "none", sym |-> "", raised |-> NoError]

\* No batch is running.
BatchIdle ==
    /\ phase = "idle"
    /\ kind = "none"
    /\ symbols = <<>>
    /\ max_workers = 0
    /\ raises = {}
    /\ task = <<>>
    /\ tmp = [s \in Symbols |-> [exists |-> FALSE, rows |-> <<>>]]
    /\ reqlog = <<>>
    /\ mainpc = "wait"
    /\ collected = {}
    /\ entry = <<>>
    /\ updated_symbols = <<>>
    /\ failed_symbols = <<>>
    /\ no_update_needed = <<>>
    /\ successful = <<>>
    /\ failed = <<>>
    /\ csv0 = csv

Init ==
    /\ today = StartDay
    /\ market \in [Symbols -> MarketData]
    /\ csv = [s \in Symbols |-> <<>>]
    /\ corrupt = {}
    /\ lastOp = NoOp
    /\ requested = <<>>
    /\ fetched = <<>>
    /\ BatchIdle

\* The listing dates get_listing_date may report (None: the request failed).
ListingDates == {None, StartDay - 1}

\* The exceptions one call of get_volume_deliverable_data may meet: a request
\* that raises, or, with no request to make, nselib's validation.
Faults(from_date, to_date) ==
    LET n == Len(Chunks(from_date, to_date))
    IN {[failAt |-> k, strict |-> b] :
           k \in 0..n, b \in IF n = 0 THEN BOOLEAN ELSE {FALSE}}

Download ==
    \E s \in Symbols, start_year \in Years \cup {None}, end_year \in Years \cup {None} :
      \E listing_date \in IF start_year = None THEN ListingDates ELSE {None} :
        \E x \in Faults(DownloadStart(start_year, listing_date), DownloadEnd(end_year)) :
          DownloadSymbolData(s, start_year, end_year, listing_date, x.failAt, x.strict)

Update ==
    \E s \in Symbols :
      \E x \in Faults(UpdateStart(s), UpdateEnd) :
        UpdateSymbolData(s, x.failAt, x.strict)

Next == Download \/ Update \/ Tick

Spec == Init /\ [][Next]_vars

\* ------------------------------------------------------ the merge alone
\* The merge-and-persist step of update_symbol_data (lines 196-205) applied to
\* a cached table and a fetch result drawn from bounded sets.
\* The cached tables are in date order; one written by download_symbol_data
\* may hold two records of a date.
CachedTables == {t \in SeqsUpTo(Rows, MaxRows) : IsSorted(t)}

MergeAndPersist(s) ==
    /\ fetched # <<>>
    /\ csv' = [csv EXCEPT ![s] = save_to_csv(s, merge_tables(load_from_csv(s), fetched))]
    /\ corrupt' = Rewritten(s, fetched)
    /\ lastOp' = [op |-> IF lastOp.op \in {"merge", "remerge"} /\ lastOp.sym = s
                         THEN "remerge" ELSE "merge",
                  sym |-> s, raised |-> NoError]
    /\ UNCHANGED <<today, market, requested, fetched, batchVars>>

InitMerge ==
    /\ today = StartDay
    /\ market = [s \in Symbols |-> <<>>]
    /\ csv \in [Symbols -> CachedTables]
    /\ corrupt = {}
    /\ lastOp = NoOp
    /\ requested = <<>>
    /\ fetched \in SeqsUpTo(Rows, MaxRows)
    /\ BatchIdle

NextMerge == \E s \in Symbols : MergeAndPersist(s)

SpecMerge == InitMerge /\ [][NextMerge]_vars

\* ------------------------------------------------------ BulkNSEDownloader
MaxSymbols == 2
MaxWorkers == 2

ExceptionNames == {"RuntimeError", "FileNotFoundError", "ValueError",
                   "TypeError", "AttributeError"}

\* What a future holds when it is done: the exception it raised, or the value
\* its function returned (a DataFrame, rows; or the dict of
\* _update_single_symbol: updated, new_records, error).
Raised(e) == [raised |-> e, rows |-> <<>>, updated |-> FALSE, new_records |-> 0,
              error |-> NoError]
ReturnedData(rows) == [raised |-> NoError, rows |-> rows, updated |-> FALSE,
                       new_records |-> 0, error |-> NoError]
ReturnedDict(updated, new_records, error) ==
    [raised |-> NoError, rows |-> <<>>, updated |-> updated,
     new_records |-> new_records, error |-> error]

NoResult == ReturnedData(<<>>)
QueuedTask == [pc |-> "queued", chunks |-> <<>>, df |-> <<>>, data |-> <<>>,
               result |-> NoResult, worker |-> 0, slept |-> FALSE, wrote |-> "none"]

Range(f) == {f[i] : i \in DOMAIN f}
Running == {i \in DOMAIN task : task[i].pc \notin {"queued", "done"}}
Finish(i, result) == [task EXCEPT ![i].pc = "done", ![i].result = result]

\* _get_latest_date_in_csv(symbol), line 141: NSEDataDownloader defines no
\* get_symbol_directory, so the call raises AttributeError.
get_latest_date_in_csv(s) == [raised |-> "AttributeError", date |-> None]

\* _update_single_symbol(symbol): the dict it returns.  Every exception is
\* caught by line 134.  Behind the call of line 98 the code would download the
\* history and then test "if data" on a DataFrame (ValueError, line 109), or
\* call update_symbol_data with two arguments too many (TypeError, line 128).
update_single_symbol(s) ==
    LET latest == get_latest_date_in_csv(s)
        current_date == today
    IN IF latest.raised # NoError THEN ReturnedDict(FALSE, 0, latest.raised)
       ELSE IF latest.date = None THEN ReturnedDict(FALSE, 0, "ValueError")
       ELSE IF latest.date >= current_date - 1 THEN ReturnedDict(FALSE, 0, NoError)
       ELSE IF latest.date + 1 > current_date - 1 THEN ReturnedDict(FALSE, 0, NoError)
       ELSE ReturnedDict(FALSE, 0, "TypeError")

\* A handler that catches ValueError alone.
HandlerCatchesValueError(e) == e = "ValueError"

\* "except Exception" of the as_completed loops (lines 82 and 216).
HandlerCatches(e) == e \in ExceptionNames

\* A loop that logs an error result and appends it to no list.
UpdateEntryDropsErrors(result) ==
    IF result.raised # NoError THEN "failed"
    ELSE IF result.updated THEN "updated"
    ELSE IF result.error # NoError THEN "none"
    ELSE "no_update"

\* update_all_symbols, lines 65-84: the list future.result() is appended to.
UpdateEntry(result) ==
    IF result.raised # NoError THEN "failed"
    ELSE IF result.updated THEN "updated"
    ELSE IF result.error # NoError THEN "failed"
    ELSE "no_update"

\* parallel_download, lines 208-218: the list future.result() is appended to.
DownloadEntry(result) ==
    IF result.raised # NoError THEN "failed"
    ELSE IF result.rows # <<>> THEN "successful"
    ELSE "failed"

\* update_all_symbols / parallel_download: the futures are submitted.
StartBatch(k, syms, workers) ==
    /\ phase = "idle"
    /\ phase' = "running"
    /\ kind' = k
    /\ symbols' = syms
    /\ max_workers' = workers
    /\ task' = [i \in DOMAIN syms |-> QueuedTask]
    /\ reqlog' = [i \in DOMAIN syms |-> <<>>]
    /\ entry' = [i \in DOMAIN syms |-> "none"]
    /\ csv0' = csv
    /\ UNCHANGED <<today, market, csv, corrupt, cacheVars, raises, tmp, mainpc, collected,
                   updated_symbols, failed_symbols, no_update_needed,
                   successful, failed>>

\* The threads of the pool that run no future.
IdleWorkers == (1..max_workers) \ {task[i].worker : i \in Running}

\* ThreadPoolExecutor: a free worker takes the next future of the queue.  The
\* threads are interchangeable; the idle one of lowest number stands for any.
StartTask(i) ==
    /\ phase = "running"
    /\ task[i].pc = "queued"
    /\ \A j \in 1..(i - 1) : task[j].pc # "queued"
    /\ Cardinality(Running) < max_workers
    /\ LET w == CHOOSE v \in IdleWorkers : \A u \in IdleWorkers : v <= u
       IN task' = [task EXCEPT ![i].pc = "start", ![i].worker = w]
    /\ UNCHANGED <<today, market, csv, corrupt, cacheVars, phase, kind, symbols, max_workers,
                   raises, tmp, reqlog, mainpc, collected, entry, updated_symbols,
                   failed_symbols, no_update_needed, successful, failed, csv0>>

TaskUnchanged ==
    UNCHANGED <<today, market, cacheVars, phase, kind, symbols, max_workers, raises,
                mainpc, collected, entry, updated_symbols, failed_symbols,
                no_update_needed, successful, failed, csv0>>

\* A worker runs _update_single_symbol(symbols[i]).
UpdateTask(i) ==
    /\ kind = "update"
    /\ task[i].pc = "start"
    /\ task' = Finish(i, update_single_symbol(symbols[i]))
    /\ UNCHANGED <<csv, corrupt, tmp, reqlog>>
    /\ TaskUnchanged

\* A worker runs download_symbol_data(symbols[i], default_start_year) up to
\* its first request: lines 57-88.
DownloadBegin(i) ==
    /\ kind = "download"
    /\ task[i].pc = "start"
    /\ LET s == symbols[i]
           chunks == Chunks(DownloadStart(default_start_year, None), DownloadEnd(None))
       IN task' = IF is_data_complete(s)
                  THEN Finish(i, ReturnedData(load_from_csv(s)))
                  ELSE [task EXCEPT ![i].pc = IF chunks = <<>> THEN "save" ELSE "fetch",
                                    ![i].chunks = chunks]
    /\ UNCHANGED <<csv, corrupt, tmp, reqlog>>
    /\ TaskUnchanged

\* get_price_volume_and_deliverable_position_data, lines 105-112: the request
\* and the write of the temporary file.
Request(i) ==
    /\ task[i].pc = "fetch"
    /\ LET s == symbols[i]
           c == Head(task[i].chunks)
       IN /\ reqlog' = [reqlog EXCEPT ![i] = Append(@, c)]
          /\ IF s \in raises
             THEN /\ task' = Finish(i, Raised("RuntimeError"))
                  /\ tmp' = tmp
             ELSE /\ task' = [task EXCEPT ![i].pc = "read"]
                  /\ tmp' = [tmp EXCEPT ![s] = [exists |-> TRUE,
                                               rows |-> RemoteRows(s, c[1], c[2])]]
    /\ UNCHANGED <<csv, corrupt>>
    /\ TaskUnchanged

\* line 113: pd.read_csv(tmp_file)
ReadTmp(i) ==
    /\ task[i].pc = "read"
    /\ LET s == symbols[i]
       IN task' = IF tmp[s].exists
                  THEN [task EXCEPT ![i].pc = "remove", ![i].df = tmp[s].rows]
                  ELSE Finish(i, Raised("FileNotFoundError"))
    /\ UNCHANGED <<csv, corrupt, tmp, reqlog>>
    /\ TaskUnchanged

\* line 114: os.remove(tmp_file); then lines 155-158 of the chunk loop.
RemoveTmp(i) ==
    /\ task[i].pc = "remove"
    /\ LET s == symbols[i]
           rest == Tail(task[i].chunks)
       IN IF tmp[s].exists
          THEN /\ tmp' = [tmp EXCEPT ![s] = [exists |-> FALSE, rows |-> <<>>]]
               /\ task' = [task EXCEPT ![i].pc = IF rest = <<>> THEN "save" ELSE "fetch",
                                       ![i].chunks = rest,
                                       ![i].data = @ \o task[i].df,
                                       ![i].df = <<>>]
          ELSE /\ tmp' = tmp
               /\ task' = Finish(i, Raised("FileNotFoundError"))
    /\ UNCHANGED <<csv, corrupt, reqlog>>
    /\ TaskUnchanged

\* download_symbol_data, lines 89-90: save_to_csv and return.  to_csv may
\* raise (ok = FALSE): save_to_csv catches it and returns False (lines
\* 145-147), and download_symbol_data returns the data all the same.
Save(i) ==
    /\ task[i].pc = "save"
    /\ LET s == symbols[i]
           data == task[i].data
       IN \E ok \in IF data = <<>> THEN {TRUE} ELSE BOOLEAN :
            /\ csv' = IF ok THEN [csv EXCEPT ![s] = save_to_csv(s, data)] ELSE csv
            /\ corrupt' = IF ok THEN Rewritten(s, data) ELSE corrupt
            /\ task' = [Finish(i, ReturnedData(data)) EXCEPT
                           ![i].wrote = IF data = <<>> THEN "none"
                                        ELSE IF ok THEN "ok" ELSE "failed"]
    /\ UNCHANGED <<tmp, reqlog>>
    /\ TaskUnchanged

\* One turn of the as_completed loop for future i, up to time.sleep.
Collect(i) ==
    /\ phase = "running"
    /\ mainpc = "wait"
    /\ task[i].pc = "done"
    /\ i \notin collected
    /\ LET r == task[i].result
           e == IF kind = "update" THEN UpdateEntry(r) ELSE DownloadEntry(r)
           s == symbols[i]
       IN IF r.raised # NoError /\ ~HandlerCatches(r.raised)
          THEN /\ phase' = "aborted"
               /\ UNCHANGED <<mainpc, collected, entry, updated_symbols, failed_symbols,
                              no_update_needed, successful, failed>>
          ELSE /\ phase' = phase
               /\ mainpc' = "sleep"
               /\ collected' = collected \cup {i}
               /\ entry' = [entry EXCEPT ![i] = e]
               /\ updated_symbols' =
                      IF e = "updated" THEN Append(updated_symbols, s) ELSE updated_symbols
               /\ failed_symbols' =
                      IF kind = "update" /\ e = "failed"
                      THEN Append(failed_symbols, s) ELSE failed_symbols
               /\ no_update_needed' =
                      IF e = "no_update" THEN Append(no_update_needed, s) ELSE no_update_needed
               /\ successful' =
                      IF e = "successful" THEN Append(successful, s) ELSE successful
               /\ failed' =
                      IF kind = "download" /\ e = "failed"
                      THEN Append(failed, s) ELSE failed
    /\ UNCHANGED <<today, market, csv, corrupt, cacheVars, kind, symbols, max_workers, raises,
                   task, tmp, reqlog, csv0>>

\* time.sleep(2) / time.sleep(delay) returns: the main thread has waited the
\* delay since every future that was done by then.
Sleep ==
    /\ phase = "running"
    /\ mainpc = "sleep"
    /\ mainpc' = "wait"
    /\ task' = [i \in DOMAIN task |->
                  IF task[i].pc = "done" THEN [task[i] EXCEPT !.slept = TRUE] ELSE task[i]]
    /\ UNCHANGED <<today, market, csv, corrupt, cacheVars, phase, kind, symbols,
                   max_workers, raises, tmp, reqlog, collected, entry, updated_symbols,
                   failed_symbols, no_update_needed, successful, failed, csv0>>

\* The loop has seen every future: the batch returns its lists.
Return ==
    /\ phase = "running"
    /\ mainpc = "wait"
    /\ collected = DOMAIN symbols
    /\ phase' = "returned"
    /\ UNCHANGED <<today, market, csv, corrupt, cacheVars, kind, symbols, max_workers, raises,
                   task, tmp, reqlog, mainpc, collected, entry, updated_symbols,
                   failed_symbols, no_update_needed, successful, failed, csv0>>

\* The tables a cache may hold of the records of market m: none, or the merge
\* of the records up to some date.
TablesOf(m) ==
    {<<>>} \cup {merge_tables(<<>>, SelectSeq(m, LAMBDA r : r.Date <= c)) : c \in TradeDays}

\* The day of the batch: the last trade day of the model or the day after.
BatchDays == {StartDay + NumTradeDays - 2, StartDay + NumTradeDays - 1}

InitBatch ==
    /\ today \in BatchDays
    /\ market \in [Symbols -> {m \in MarketData : NoDuplicateDates(m)}]
    /\ csv \in {c \in [Symbols -> SeqsUpTo(Rows, MaxRows)] :
                   \A s \in Symbols : c[s] \in TablesOf(market[s])}
    /\ corrupt \in SUBSET {s \in Symbols : csv[s] = <<>>}
    /\ lastOp = NoOp
    /\ requested = <<>>
    /\ fetched = <<>>
    /\ phase = "idle"
    /\ kind = "none"
    /\ symbols = <<>>
    /\ max_workers = 0
    /\ raises \in SUBSET Symbols
    /\ task = <<>>
    /\ tmp = [s \in Symbols |-> [exists |-> FALSE, rows |-> <<>>]]
    /\ reqlog = <<>>
    /\ mainpc = "wait"
    /\ collected = {}
    /\ entry = <<>>
    /\ updated_symbols = <<>>
    /\ failed_symbols = <<>>
    /\ no_update_needed = <<>>
    /\ successful = <<>>
    /\ failed = <<>>
    /\ csv0 = csv

Start ==
    \E k \in {"update", "download"}, syms \in SeqsUpTo(Symbols, MaxSymbols) \ {<<>>},
       workers \in 1..MaxWorkers :
        StartBatch(k, syms, workers)

StartTasks == \E i \in DOMAIN task : StartTask(i)
UpdateTasks == \E i \in DOMAIN task : UpdateTask(i)
DownloadBegins == \E i \in DOMAIN task : DownloadBegin(i)
Requests == \E i \in DOMAIN task : Request(i)
ReadTmps == \E i \in DOMAIN task : ReadTmp(i)
RemoveTmps == \E i \in DOMAIN task : RemoveTmp(i)
Saves == \E i \in DOMAIN task : Save(i)
Collects == \E i \in DOMAIN task : Collect(i)

NextBatch ==
    \/ Start
    \/ StartTasks
    \/ UpdateTasks
    \/ DownloadBegins
    \/ Requests
    \/ ReadTmps
    \/ RemoveTmps
    \/ Saves
    \/ Collects
    \/ Sleep
    \/ Return

SpecBatch == InitBatch /\ [][NextBatch]_vars

\* ------------------------------------------------------ the fetch alone
\* get_volume_deliverable_data applied to date ranges drawn from bounded sets:
\* the days around the year boundaries of MaxChunkYears years.
MaxChunkYears == 2

ChunkDays ==
    {d \in 0..(MaxChunkYears * DaysPerYear + 1) :
        d % DaysPerYear \in {0, 1, DaysPerYear - 1}}

\* get_volume_deliverable_data(symbol, start_date_str, end_date_str)
FetchRange(s, from_date, to_date, failAt, strict) ==
    LET f == get_volume_deliverable_data(s, from_date, to_date, failAt, strict)
    IN /\ lastOp' = [op |-> "fetch", sym |-> s, raised |-> f.raised,
                     from_date |-> from_date, to_date |-> to_date]
       /\ requested' = f.requested
       /\ fetched' = f.rows
       /\ UNCHANGED <<today, market, csv, corrupt, batchVars>>

InitChunks ==
    /\ today = LastDay
    /\ market \in [Symbols -> {m \in MarketData : NoDuplicateDates(m) /\ Len(m) = MaxRows}]
    /\ csv = [s \in Symbols |-> <<>>]
    /\ corrupt = {}
    /\ lastOp = NoOp
    /\ requested = <<>>
    /\ fetched = <<>>
    /\ BatchIdle

NextChunks ==
    \E s \in Symbols, from_date \in ChunkDays, to_date \in ChunkDays :
      \E x \in Faults(from_date, to_date) :
        FetchRange(s, from_date, to_date, x.failAt, x.strict)

SpecChunks == InitChunks /\ [][NextChunks]_vars

\* ====================================================== claims

\* The row of table t for date d (the first one).
RowOf(t, d) == t[CHOOSE i \in DOMAIN t : t[i].Date = d /\ \A j \in 1..(i - 1) : t[j].Date # d]

\* C1 (as claimed): merging a fetch result into a cached table leaves one row
\* per date of either, in ascending date order, and on a date both hold the
\* row carries the fetched values (the later-fetched record wins).
C1_NewDataWins ==
    [][\A s \in Symbols :
          (lastOp.op = "none" /\ lastOp'.op = "merge" /\ lastOp'.sym = s
             /\ NoDuplicateDates(fetched))
          => /\ Dates(csv'[s]) = Dates(csv[s]) \cup Dates(fetched)
             /\ Len(csv'[s]) = Cardinality(Dates(csv[s]) \cup Dates(fetched))
             /\ IsSorted(csv'[s])
             /\ \A i \in DOMAIN fetched : RowOf(csv'[s], fetched[i].Date) = fetched[i]]_vars

\* A step of update_symbol_data or download_symbol_data (not of the clock).
IsCall(op) == lastOp'.op = op /\ today' = today

\* C2 (as claimed): every write of a symbol's CSV leaves a table that holds
\* every date it held before together with every fetched date.
C2_EveryWriteKeepsOldRows ==
    [][\A s \in Symbols :
          csv'[s] # csv[s] => Dates(csv[s]) \cup Dates(fetched') \subseteq Dates(csv'[s])]_vars

\* C2 (amended): a write by update_symbol_data leaves exactly one row for each
\* date of the old table and of the fetch result, in ascending date order; a
\* write by download_symbol_data replaces the table with the fetched rows.
C2_UpdateWriteKeepsOldRows ==
    [][\A s \in Symbols :
          csv'[s] # csv[s]
          => IF IsCall("update")
             THEN /\ Dates(csv'[s]) = Dates(csv[s]) \cup Dates(fetched')
                  /\ NoDuplicateDates(csv'[s])
                  /\ IsSorted(csv'[s])
             ELSE IsCall("download") /\ csv'[s] = fetched']_vars

\* C2 witness: an update has merged fetched rows into a table that held others.
C2_Witness ==
    /\ lastOp.op = "update"
    /\ fetched # <<>>
    /\ Dates(fetched) \subseteq Dates(csv[lastOp.sym])
    /\ Dates(csv[lastOp.sym]) \ Dates(fetched) # {}

\* C3 (as claimed): every persisted table holds at most one record per trade
\* date and its records are in ascending date order.
C3_TablesSortedUnique ==
    \A s \in Symbols : NoDuplicateDates(csv[s]) /\ IsSorted(csv[s])

\* C4 (as claimed): an update of a symbol whose cached latest date is L
\* requests exactly the dates L + 1 .. today - 1 from the remote source (none
\* when L + 1 > today - 1), unless a request fails.
C4_UpdateRequestsExactRange ==
    [][\A s \in Symbols :
          (IsCall("update") /\ lastOp'.sym = s /\ lastOp'.raised # "RuntimeError"
             /\ csv[s] # <<>>)
          => RequestedDates(requested') = (MaxDate(csv[s]) + 1)..(today - 1)]_vars

\* ------------------------------------------------------ batches
Returned(k) == phase = "returned" /\ kind = k
Count(list, s) == Cardinality({k \in DOMAIN list : list[k] = s})
Tasks(e) == {i \in DOMAIN symbols : entry[i] = e}

\* The records an update of symbol s would fetch when the batch started: those
\* of the dates after its cached latest date, up to yesterday.
MissingRows(s) == RemoteRows(s, MaxDate(csv0[s]) + 1, today - 1)

\* C5 (as claimed): a symbol whose cache is not current and whose fetch returns
\* k >= 1 records is reported updated with new_record_count = k, and the
\* records are merged into its table.
C5_StaleSymbolUpdated ==
    Returned("update")
    => \A i \in DOMAIN symbols :
          LET s == symbols[i]
          IN (csv0[s] # <<>> /\ MaxDate(csv0[s]) < today - 1 /\ s \notin raises
                /\ MissingRows(s) # <<>>)
             => /\ entry[i] = "updated"
                /\ task[i].result.updated
                /\ task[i].result.new_records = Len(MissingRows(s))
                /\ csv[s] = merge_tables(csv0[s], MissingRows(s))

\* C6 (as claimed): a symbol whose cached latest date is yesterday or today is
\* not fetched, its update returns updated = false with no error, and it is
\* reported already up to date.
C6_CurrentSymbolNoUpdate ==
    Returned("update")
    => \A i \in DOMAIN symbols :
          LET s == symbols[i]
          IN (csv0[s] # <<>> /\ MaxDate(csv0[s]) >= today - 1)
             => /\ reqlog[i] = <<>>
                /\ ~task[i].result.updated
                /\ task[i].result.error = NoError
                /\ entry[i] = "no_update"

\* C7 (as claimed): the update of a symbol with no cache fetches the range from
\* the fallback epoch (1 Jan of default_start_year) to yesterday.
C7_NoCacheFetchesFromEpoch ==
    Returned("update")
    => \A i \in DOMAIN symbols :
          (csv0[symbols[i]] = <<>> /\ symbols[i] \notin raises)
          => /\ reqlog[i] # <<>>
             /\ reqlog[i][1][1] = Jan1(default_start_year)
             /\ reqlog[i][Len(reqlog[i])][2] = today - 1

\* C8: no exception of a task leaves the batch; when the batch returns every
\* future has been reported, a future that raised is a failed entry of its own
\* symbol, and the failed list holds nothing but the futures that failed
\* themselves.
C8_ErrorsStayInTheirTask ==
    /\ phase # "aborted"
    /\ phase = "returned"
       => /\ \A i \in DOMAIN symbols :
                /\ entry[i] # "none"
                /\ task[i].result.raised # NoError => entry[i] = "failed"
                /\ (kind = "download" /\ task[i].result.raised = NoError
                      /\ task[i].result.rows # <<>>) => entry[i] = "successful"
                /\ (kind = "update" /\ task[i].result.raised = NoError
                      /\ task[i].result.error = NoError /\ ~task[i].result.updated)
                   => entry[i] = "no_update"
          /\ \A s \in Symbols :
                Count(IF kind = "update" THEN failed_symbols ELSE failed, s)
                  = Cardinality({i \in Tasks("failed") : symbols[i] = s})

\* C8 witness: a download batch has returned in which the fetch of one symbol
\* raised and another symbol was reported successful.
C8_Witness ==
    /\ Returned("download")
    /\ \E i, j \in DOMAIN symbols :
          /\ task[i].result.raised = "RuntimeError"
          /\ symbols[i] \in Range(failed)
          /\ symbols[j] # symbols[i]
          /\ symbols[j] \in Range(successful)

\* C9: when update_all_symbols returns, its three lists are pairwise disjoint
\* and together hold exactly the input symbols.
C9_ThreeWayPartition ==
    Returned("update")
    => /\ Range(updated_symbols) \cap Range(failed_symbols) = {}
       /\ Range(updated_symbols) \cap Range(no_update_needed) = {}
       /\ Range(failed_symbols) \cap Range(no_update_needed) = {}
       /\ Range(updated_symbols) \cup Range(failed_symbols) \cup Range(no_update_needed)
            = Range(symbols)

\* C9 witness: update_all_symbols has returned for two different symbols, run
\* by two workers.
C9_Witness ==
    /\ Returned("update")
    /\ max_workers > 1
    /\ Cardinality(Range(symbols)) > 1
    /\ Len(updated_symbols) + Len(failed_symbols) + Len(no_update_needed) = Len(symbols)

\* What one worker makes of symbol s: with max_workers = 1 the futures run one
\* after the other, and every future of s ends the same way.
OneWorkerEntry(s) ==
    IF kind = "update" THEN UpdateEntry(update_single_symbol(s))
    ELSE IF csv0[s] # <<>> /\ MaxDate(csv0[s]) >= today - CompleteWindow
    THEN "successful"
    ELSE IF s \in raises THEN "failed"
    ELSE DownloadEntry(ReturnedData(ConcatChunks(s,
             Chunks(Jan1(default_start_year), today))))

Reported(e) ==
    Range(CASE e = "updated" -> updated_symbols
            [] e = "no_update" -> no_update_needed
            [] e = "successful" -> successful
            [] OTHER -> IF kind = "update" THEN failed_symbols ELSE failed)

ReportOfOneWorker ==
    \A e \in {"updated", "no_update", "successful", "failed"} :
        Reported(e) = {s \in Range(symbols) : OneWorkerEntry(s) = e}

\* The report of a batch run by one worker is the one OneWorkerEntry gives.
OneWorkerReport == (phase = "returned" /\ max_workers = 1) => ReportOfOneWorker

\* The same for every max_workers when no symbol is listed twice.
DistinctSymbolsReport ==
    (phase = "returned" /\ Cardinality(Range(symbols)) = Len(symbols)) => ReportOfOneWorker

\* C10 (as claimed): whatever max_workers is, the batch returns the report (as
\* sets) that one worker returns for the same tables and fetch outcomes.
C10_SameReportAsOneWorker == phase = "returned" => ReportOfOneWorker

\* C11 (as claimed): a worker that has finished a future does not start its
\* next future before the inter-task delay has been waited: between the end of
\* one future and the start of the next one on the same worker there is a
\* delay step.
C11_DelayBeforeNextTask ==
    [][\A i, j \in DOMAIN task :
          (task[i].pc = "queued" /\ task'[i].pc = "start"
             /\ task[j].pc = "done" /\ task[j].worker = task'[i].worker)
          => task[j].slept]_vars

\* C12 (as claimed): a symbol for which the remote source answered every
\* request with no records is not reported failed.
C12_EmptyResultNotFailed ==
    phase = "returned"
    => \A i \in DOMAIN symbols :
          (reqlog[i] # <<>> /\ task[i].result.raised = NoError /\ task[i].data = <<>>)
          => entry[i] # "failed"

\* C13 (as claimed): a symbol whose table could not be written is reported
\* failed, never successful or updated.
C13_FailedWriteReportedFailed ==
    phase = "returned"
    => \A i \in DOMAIN symbols :
          task[i].wrote = "failed"
          => /\ entry[i] = "failed"
             /\ symbols[i] \notin Range(successful) \cup Range(updated_symbols)

\* C14 (as claimed): the update of a symbol whose cache file cannot be parsed
\* does not end in an error: the cache counts as absent and the symbol is
\* fetched again.
C14_CorruptCacheRefetched ==
    Returned("update")
    => \A i \in DOMAIN symbols :
          (symbols[i] \in corrupt /\ symbols[i] \notin raises)
          => /\ task[i].result.raised = NoError
             /\ task[i].result.error = NoError
             /\ entry[i] # "failed"
             /\ reqlog[i] # <<>>

\* Future i holds the temporary file of its symbol: written, not yet removed.
HoldsTmp(i) == task[i].pc \in {"read", "remove"}
\* Future i is about to write the CSV of its symbol.
WritesCsv(i) == task[i].pc = "save"

\* C16 (as claimed): whatever the symbol list, no two futures of a batch work
\* on the same file at the same time, neither the temporary download file nor
\* the CSV of a symbol: every symbol is run by one future.
C16_NoSharedFile ==
    \A i, j \in DOMAIN task :
        (i # j /\ symbols[i] = symbols[j])
        => /\ ~(HoldsTmp(i) /\ HoldsTmp(j))
           /\ ~(WritesCsv(i) /\ WritesCsv(j))
           /\ ~(i \in Running /\ j \in Running)

\* C17 (as claimed): download_symbol_data serves the cache without a fetch
\* (is_data_complete is True) only when the file can be read and its latest
\* date is yesterday or today, the threshold of the update path.
C17_CompleteMeansYesterday ==
    [][\A s \in Symbols :
          (IsCall("download") /\ lastOp'.sym = s /\ is_data_complete(s))
          => /\ s \notin corrupt
             /\ csv[s] # <<>>
             /\ MaxDate(csv[s]) >= today - 1]_vars

\* C15: the merge-and-persist step is idempotent: merging the fetch result
\* into the table it was just merged into leaves the table as it is.
C15_MergeIdempotent ==
    [][\A s \in Symbols :
          (lastOp'.op = "remerge" /\ lastOp'.sym = s) => csv'[s] = csv[s]]_vars

\* C15 witness: a fetch result has been merged twice into a table that holds
\* other dates too and that held another record for one of the fetched dates.
C15_Witness ==
    /\ lastOp.op = "remerge"
    /\ LET t == csv[lastOp.sym]
       IN /\ Dates(fetched) \subseteq Dates(t)
          /\ Dates(t) \ Dates(fetched) # {}
          /\ \E i \in DOMAIN fetched : fetched[i] \notin Range(t)

\* C18 (as claimed): for from_date <= to_date the chunk loop ends and the
\* sub-ranges it requests are consecutive, do not overlap and cover exactly
\* from_date .. to_date, the single-day range included.
C18_ChunksCoverRange ==
    (lastOp.op = "fetch" /\ lastOp.raised # "RuntimeError"
       /\ lastOp.from_date <= lastOp.to_date)
    => /\ requested # <<>>
       /\ requested[1][1] = lastOp.from_date
       /\ requested[Len(requested)][2] = lastOp.to_date
       /\ \A k \in DOMAIN requested : requested[k][1] <= requested[k][2]
       /\ \A k \in 1..(Len(requested) - 1) : requested[k + 1][1] = requested[k][2] + 1

====
